---- MODULE Spec2Model ----
(***************************************************************************)
(* NEP5 token ledger (vaas/example/Data-Injection-Attack/NEP5Token.py).    *)
(*                                                                         *)
(* The contract keeps every record, balances and allowances alike, in one  *)
(* key-value store.  A balance is stored under the address itself, an      *)
(* allowance under concat(owner, spender), the two byte strings joined     *)
(* with no separator.  Addresses are byte strings whose length the code    *)
(* never checks.  Integers are the language's integers: the handlers add   *)
(* and subtract without any range check.                                   *)
(*                                                                         *)
(* One step of the model is one invocation of Main, run to completion.     *)
(***************************************************************************)
EXTENDS Integers, Sequences, FiniteSets, TLC

(***************************************************************************)
(* Bounds of the model.                                                    *)
(***************************************************************************)
\* the largest value of the integer width the specification asks for
IntMax == 2
\* amounts passed to the handlers range over -1 .. MaxAmount
MaxAmount == 2
\* number of invocations explored from an initial store
MaxCalls == 2

Amounts == (0 - 1)..MaxAmount

(***************************************************************************)
(* Addresses: byte strings.  VarAddrs holds addresses of different lengths *)
(* (AddrC is AddrA followed by AddrB); FixedAddrs holds addresses of one   *)
(* length only.                                                            *)
(***************************************************************************)
AddrA == <<1>>
AddrB == <<2>>
AddrC == <<1, 2>>
AddrD == <<3>>
VarAddrs == {AddrA, AddrB, AddrC}
FixedAddrs == {AddrA, AddrB, AddrD}

VARIABLES
    addrs,      \* the addresses callers pass in this run
    store,      \* the contract's storage: key -> integer, absent keys missing
    pre,        \* the storage as it was before the last invocation
    operation,  \* operation name of the last invocation ("" before the first)
    args,       \* argument list of the last invocation
    ret,        \* value the last invocation returned
    events,     \* events the last invocation dispatched, in order
    witnessed,  \* addresses the last invocation passed to CheckWitness, in order
    signed,     \* the answers CheckWitness gave to those, in order
    signers,    \* the addresses whose signature the last invocation carried
    ncalls,     \* number of invocations so far
    granted,    \* <<owner, spender>> -> sum of the amounts of the successful approvals
    drawn       \* <<from, to>> -> sum of the amounts of the successful transferFroms

vars == <<addrs, store, pre, operation, args, ret, events, witnessed, signed,
          signers, ncalls, granted, drawn>>

(***************************************************************************)
(* Interop layer: storage, witness check, concat, events.                  *)
(***************************************************************************)
concat(a, b) == a \o b

\* Get: the stored value, zero when the key is absent
Get(ctx, key) == IF key \in DOMAIN ctx THEN ctx[key] ELSE 0

Put(ctx, key, value) ==
    [k \in (DOMAIN ctx) \cup {key} |-> IF k = key THEN value ELSE ctx[k]]

Delete(ctx, key) == [k \in (DOMAIN ctx) \ {key} |-> ctx[k]]

\* CheckWitness: whether the invocation carries the address's signature
CheckWitness(sigs, addr) == addr \in sigs

DispatchTransferEvent(t_from, t_to, amount) ==
    [name |-> "transfer", a |-> t_from, b |-> t_to, amount |-> amount]

DispatchApproveEvent(t_owner, t_spender, amount) ==
    [name |-> "approval", a |-> t_owner, b |-> t_spender, amount |-> amount]

(***************************************************************************)
(* Return values: a boolean, an integer or a string.                       *)
(***************************************************************************)
RetBool(b) == [kind |-> "bool", b |-> b, n |-> 0, s |-> ""]
RetInt(n) == [kind |-> "int", b |-> FALSE, n |-> n, s |-> ""]
RetStr(s) == [kind |-> "str", b |-> FALSE, n |-> 0, s |-> s]

\* what a handler leaves behind: return value, storage, events, witness checks
Outcome(r, ctx, evs, asked, answers) ==
    [ret |-> r, store |-> ctx, events |-> evs, witnessed |-> asked, signed |-> answers]

\* a debit that always writes the difference, a zero included
TransferDebit_AlwaysPut(ctx, t_from, from_val, amount) ==
    Put(ctx, t_from, from_val - amount)

(***************************************************************************)
(* DoTransfer                                                              *)
(***************************************************************************)
\* the debit of t_from: the record is deleted when the balance is spent whole
TransferDebit(ctx, t_from, from_val, amount) ==
    IF from_val = amount
    THEN Delete(ctx, t_from)
    ELSE LET difference == from_val - amount
         IN  Put(ctx, t_from, difference)

\* a credit that overwrites the recipient's balance instead of adding to it
TransferCredit_Overwrite(ctx, t_to, amount) == Put(ctx, t_to, amount)

\* the credit of t_to, read after the debit was written
TransferCredit(ctx, t_to, amount) ==
    LET to_value == Get(ctx, t_to)
        to_total == to_value + amount
    IN  Put(ctx, t_to, to_total)

\* variants of the checks below, each with the slip its name tells
TransferAmountRejected_NegativeOnly(amount) == amount < 0
TransferSenderRejected_Never(from_is_sender) == FALSE
TransferToSelf_Never(t_from, t_to) == FALSE

\* the checks of DoTransfer, in the order the code makes them
TransferAmountRejected(amount) == amount <= 0

TransferSenderRejected(from_is_sender) == ~from_is_sender

TransferToSelf(t_from, t_to) == t_from = t_to

TransferFundsShort(from_val, amount) == from_val < amount

\* DoTransfer asking for the sender's signature before it looks at the amount
DoTransfer_WitnessFirst(ctx, sigs, t_from, t_to, amount) ==
    LET from_is_sender == CheckWitness(sigs, t_from)
        asked == <<t_from>>
        answers == <<from_is_sender>>
    IN
    IF TransferSenderRejected(from_is_sender) \/ TransferAmountRejected(amount)
    THEN Outcome(RetBool(FALSE), ctx, <<>>, asked, answers)
    ELSE IF TransferToSelf(t_from, t_to)
    THEN Outcome(RetBool(TRUE), ctx, <<>>, asked, answers)
    ELSE
    LET from_val == Get(ctx, t_from)
    IN
    IF TransferFundsShort(from_val, amount)
    THEN Outcome(RetBool(FALSE), ctx, <<>>, asked, answers)
    ELSE
    LET ctx1 == TransferDebit(ctx, t_from, from_val, amount)
        ctx2 == TransferCredit(ctx1, t_to, amount)
    IN  Outcome(RetBool(TRUE), ctx2,
                <<DispatchTransferEvent(t_from, t_to, amount)>>, asked, answers)

DoTransfer(ctx, sigs, t_from, t_to, amount) ==
    IF TransferAmountRejected(amount)
    THEN Outcome(RetBool(FALSE), ctx, <<>>, <<>>, <<>>)
    ELSE
    LET from_is_sender == CheckWitness(sigs, t_from)
        asked == <<t_from>>
        answers == <<from_is_sender>>
    IN
    IF TransferSenderRejected(from_is_sender)
    THEN Outcome(RetBool(FALSE), ctx, <<>>, asked, answers)
    ELSE IF TransferToSelf(t_from, t_to)
    THEN Outcome(RetBool(TRUE), ctx, <<>>, asked, answers)
    ELSE
    LET from_val == Get(ctx, t_from)
    IN
    IF TransferFundsShort(from_val, amount)
    THEN Outcome(RetBool(FALSE), ctx, <<>>, asked, answers)
    ELSE
    LET ctx1 == TransferDebit(ctx, t_from, from_val, amount)
        ctx2 == TransferCredit(ctx1, t_to, amount)
    IN  Outcome(RetBool(TRUE), ctx2,
                <<DispatchTransferEvent(t_from, t_to, amount)>>, asked, answers)

(***************************************************************************)
(* DoTransferFrom                                                          *)
(***************************************************************************)
\* the three writes, in the order the code makes them
TransferFromPersist(ctx, allowance_key, t_from, t_to, new_allowance, new_to_balance, new_from_balance) ==
    LET ctx1 == Put(ctx, allowance_key, new_allowance)
        ctx2 == Put(ctx1, t_to, new_to_balance)
    IN  Put(ctx2, t_from, new_from_balance)

\* the allowance check left out
TransferFromAllowanceShort_Never(available_to_to_addr, amount) == FALSE

\* the checks of DoTransferFrom, in the order the code makes them
TransferFromAmountRejected(amount) == amount <= 0

TransferFromAllowanceShort(available_to_to_addr, amount) ==
    available_to_to_addr < amount

TransferFromFundsShort(from_balance, amount) == from_balance < amount

\* DoTransferFrom writing the spent allowance before it checks the balance
DoTransferFrom_WriteFirst(ctx, sigs, t_from, t_to, amount) ==
    IF TransferFromAmountRejected(amount)
    THEN Outcome(RetBool(FALSE), ctx, <<>>, <<>>, <<>>)
    ELSE
    LET allowance_key == concat(t_from, t_to)
        available_to_to_addr == Get(ctx, allowance_key)
    IN
    IF TransferFromAllowanceShort(available_to_to_addr, amount)
    THEN Outcome(RetBool(FALSE), ctx, <<>>, <<>>, <<>>)
    ELSE
    LET ctx1 == Put(ctx, allowance_key, available_to_to_addr - amount)
        from_balance == Get(ctx1, t_from)
    IN
    IF TransferFromFundsShort(from_balance, amount)
    THEN Outcome(RetBool(FALSE), ctx1, <<>>, <<>>, <<>>)
    ELSE
    LET ctx2 == Put(ctx1, t_to, Get(ctx1, t_to) + amount)
        ctx3 == Put(ctx2, t_from, from_balance - amount)
    IN  Outcome(RetBool(TRUE), ctx3,
                <<DispatchTransferEvent(t_from, t_to, amount)>>, <<>>, <<>>)

DoTransferFrom(ctx, sigs, t_from, t_to, amount) ==
    IF TransferFromAmountRejected(amount)
    THEN Outcome(RetBool(FALSE), ctx, <<>>, <<>>, <<>>)
    ELSE
    LET allowance_key == concat(t_from, t_to)
        available_to_to_addr == Get(ctx, allowance_key)
    IN
    IF TransferFromAllowanceShort(available_to_to_addr, amount)
    THEN Outcome(RetBool(FALSE), ctx, <<>>, <<>>, <<>>)
    ELSE
    LET from_balance == Get(ctx, t_from)
    IN
    IF TransferFromFundsShort(from_balance, amount)
    THEN Outcome(RetBool(FALSE), ctx, <<>>, <<>>, <<>>)
    ELSE
    LET to_balance == Get(ctx, t_to)
        new_from_balance == from_balance - amount
        new_to_balance == to_balance + amount
        new_allowance == available_to_to_addr - amount
        ctx3 == TransferFromPersist(ctx, allowance_key, t_from, t_to,
                                    new_allowance, new_to_balance, new_from_balance)
    IN  Outcome(RetBool(TRUE), ctx3,
                <<DispatchTransferEvent(t_from, t_to, amount)>>, <<>>, <<>>)

(***************************************************************************)
(* DoApprove                                                               *)
(***************************************************************************)
ApproveOwnerRejected(owner_is_sender) == ~owner_is_sender

\* the balance guard left out
ApproveGuard_Always(from_balance, amount) == TRUE

\* the guard of the approval: the owner's balance covers the amount
ApproveGuard(from_balance, amount) == from_balance >= amount

DoApprove(ctx, sigs, t_owner, t_spender, amount) ==
    LET owner_is_sender == CheckWitness(sigs, t_owner)
        asked == <<t_owner>>
        answers == <<owner_is_sender>>
    IN
    IF ApproveOwnerRejected(owner_is_sender)
    THEN Outcome(RetBool(FALSE), ctx, <<>>, asked, answers)
    ELSE
    LET from_balance == Get(ctx, t_owner)
    IN
    IF ApproveGuard(from_balance, amount)
    THEN LET approval_key == concat(t_owner, t_spender)
             current_approved_balance == Get(ctx, approval_key)
             new_approved_balance == current_approved_balance + amount
             ctx1 == Put(ctx, approval_key, new_approved_balance)
         IN  Outcome(RetBool(TRUE), ctx1,
                     <<DispatchApproveEvent(t_owner, t_spender, amount)>>,
                     asked, answers)
    ELSE Outcome(RetBool(FALSE), ctx, <<>>, asked, answers)

(***************************************************************************)
(* GetAllowance                                                            *)
(***************************************************************************)
GetAllowance(ctx, t_owner, t_spender) ==
    LET allowance_key == concat(t_owner, t_spender)
        amount == Get(ctx, allowance_key)
    IN  Outcome(RetInt(amount), ctx, <<>>, <<>>, <<>>)

(***************************************************************************)
(* Main: the entry point.                                                  *)
(***************************************************************************)
\* Main without the length check of the allowance branch
Main_AllowanceUnchecked(ctx, sigs, op, arglist) ==
    IF op = "transfer"
    THEN IF Len(arglist) = 3
         THEN DoTransfer(ctx, sigs, arglist[1], arglist[2], arglist[3])
         ELSE Outcome(RetBool(FALSE), ctx, <<>>, <<>>, <<>>)
    ELSE IF op = "transferFrom"
    THEN IF Len(arglist) = 3
         THEN DoTransferFrom(ctx, sigs, arglist[1], arglist[2], arglist[3])
         ELSE Outcome(RetBool(FALSE), ctx, <<>>, <<>>, <<>>)
    ELSE IF op = "approve"
    THEN IF Len(arglist) = 3
         THEN DoApprove(ctx, sigs, arglist[1], arglist[2], arglist[3])
         ELSE Outcome(RetBool(FALSE), ctx, <<>>, <<>>, <<>>)
    ELSE IF op = "allowance"
    THEN GetAllowance(ctx, arglist[1], arglist[2])
    ELSE Outcome(RetStr("unknown operation"), ctx, <<>>, <<>>, <<>>)

Main(ctx, sigs, op, arglist) ==
    IF op = "transfer"
    THEN IF Len(arglist) = 3
         THEN DoTransfer(ctx, sigs, arglist[1], arglist[2], arglist[3])
         ELSE Outcome(RetBool(FALSE), ctx, <<>>, <<>>, <<>>)
    ELSE IF op = "transferFrom"
    THEN IF Len(arglist) = 3
         THEN DoTransferFrom(ctx, sigs, arglist[1], arglist[2], arglist[3])
         ELSE Outcome(RetBool(FALSE), ctx, <<>>, <<>>, <<>>)
    ELSE IF op = "approve"
    THEN IF Len(arglist) = 3
         THEN DoApprove(ctx, sigs, arglist[1], arglist[2], arglist[3])
         ELSE Outcome(RetBool(FALSE), ctx, <<>>, <<>>, <<>>)
    ELSE IF op = "allowance"
    THEN IF Len(arglist) = 2
         THEN GetAllowance(ctx, arglist[1], arglist[2])
         ELSE Outcome(RetBool(FALSE), ctx, <<>>, <<>>, <<>>)
    ELSE Outcome(RetStr("unknown operation"), ctx, <<>>, <<>>, <<>>)

(***************************************************************************)
(* The state machine: one action per operation name a caller may send.     *)
(***************************************************************************)
\* argument lists callers send: (address, address, amount) and (address, address)
ArgLists3 == {<<x, y, m>> : x \in addrs, y \in addrs, m \in Amounts}
ArgLists2 == {<<x, y>> : x \in addrs, y \in addrs}
\* lists of the wrong length for the operations that take three, resp. two
Short3 == {<<x, x>> : x \in addrs}
Long2 == {<<x, x, 1>> : x \in addrs}
\* an invocation is signed by nobody or by every address
SignerSets == {{}, addrs}

\* the initial stores: every address holds a balance of 0 (no record) or
\* IntMax, and no allowance was granted yet
InitBalances == {0, IntMax}
StoreOf(bal) == [k \in {x \in DOMAIN bal : bal[x] # 0} |-> bal[k]]

\* the model explores stored values up to one step beyond the integer width
Cap == IntMax + MaxAmount
Explored(ctx) == \A k \in DOMAIN ctx : ctx[k] >= 0 - Cap /\ ctx[k] <= Cap

\* the running totals kept beside the contract: what was approved and what
\* was drawn so far, per pair of addresses
Total(h, pair) == IF pair \in DOMAIN h THEN h[pair] ELSE 0
Add(h, pair, n) ==
    [q \in (DOMAIN h) \cup {pair} |-> IF q = pair THEN Total(h, pair) + n ELSE h[q]]

Invoke(op, arglist, sigs) ==
    LET out == Main(store, sigs, op, arglist)
    IN  /\ operation = ""
        /\ ncalls < MaxCalls
        /\ Explored(out.store)
        /\ store' = out.store
        /\ pre' = store
        /\ operation' = op
        /\ args' = arglist
        /\ ret' = out.ret
        /\ events' = out.events
        /\ witnessed' = out.witnessed
        /\ signed' = out.signed
        /\ signers' = sigs
        /\ ncalls' = ncalls + 1
        /\ granted' =
               IF op = "approve" /\ Len(arglist) = 3 /\ out.ret = RetBool(TRUE)
               THEN Add(granted, <<arglist[1], arglist[2]>>, arglist[3])
               ELSE granted
        /\ drawn' =
               IF op = "transferFrom" /\ Len(arglist) = 3 /\ out.ret = RetBool(TRUE)
               THEN Add(drawn, <<arglist[1], arglist[2]>>, arglist[3])
               ELSE drawn
        /\ UNCHANGED addrs

InitWith(A) ==
    /\ addrs = A
    /\ \E bal \in [A -> InitBalances] : store = StoreOf(bal)
    /\ pre = store
    /\ operation = ""
    /\ args = <<>>
    /\ ret = RetBool(FALSE)
    /\ events = <<>>
    /\ witnessed = <<>>
    /\ signed = <<>>
    /\ signers = {}
    /\ ncalls = 0
    /\ granted = <<>>
    /\ drawn = <<>>

Init == InitWith(VarAddrs)

Transfer ==
    \E a \in ArgLists3 \cup Short3, sg \in SignerSets : Invoke("transfer", a, sg)
TransferFrom ==
    \E a \in ArgLists3 \cup Short3 : Invoke("transferFrom", a, {})
Approve ==
    \E a \in ArgLists3 \cup Short3, sg \in SignerSets : Invoke("approve", a, sg)
Allowance ==
    \E a \in ArgLists2 \cup Long2 : Invoke("allowance", a, {})
Unknown ==
    \E a \in Short3 \cup Long2 : Invoke("balanceOf", a, {})

\* the host takes the invocation's result and events; the storage stays
Collect ==
    /\ operation # ""
    /\ pre' = store
    /\ operation' = ""
    /\ args' = <<>>
    /\ ret' = RetBool(FALSE)
    /\ events' = <<>>
    /\ witnessed' = <<>>
    /\ signed' = <<>>
    /\ signers' = {}
    /\ UNCHANGED <<addrs, store, ncalls, granted, drawn>>

Next == Transfer \/ TransferFrom \/ Approve \/ Allowance \/ Unknown \/ Collect

Spec == Init /\ [][Next]_vars

\* the same contract called with addresses of one length only
InitFixed == InitWith(FixedAddrs)
SpecFixed == InitFixed /\ [][Next]_vars

\* the contract called by two accounts, from a store that already holds the
\* allowances of earlier approvals: each balance and each allowance is 0 (no
\* record) or IntMax
TwoAddrs == {AddrA, AddrB}
GrantKeys == {concat(o, sp) : o \in TwoAddrs, sp \in TwoAddrs}
InitGranted ==
    /\ addrs = TwoAddrs
    /\ \E rec \in [TwoAddrs \cup GrantKeys -> InitBalances] : store = StoreOf(rec)
    /\ pre = store
    /\ operation = ""
    /\ args = <<>>
    /\ ret = RetBool(FALSE)
    /\ events = <<>>
    /\ witnessed = <<>>
    /\ signed = <<>>
    /\ signers = {}
    /\ ncalls = 0
    /\ granted = [p \in {q \in TwoAddrs \X TwoAddrs : Get(store, concat(q[1], q[2])) # 0}
                      |-> Get(store, concat(p[1], p[2]))]
    /\ drawn = <<>>
SpecGranted == InitGranted /\ [][Next]_vars

(***************************************************************************)
(* Vocabulary of the properties: the last invocation and its effect.       *)
(***************************************************************************)
Called(op) == operation = op /\ Len(args) = 3
ReturnedTrue == ret = RetBool(TRUE)
ReturnedFalse == ret = RetBool(FALSE)
StoreUntouched == store = pre
Keys == (DOMAIN store) \cup (DOMAIN pre)

RECURSIVE SumOver(_, _)
SumOver(ctx, S) ==
    IF S = {} THEN 0
    ELSE LET x == CHOOSE y \in S : TRUE
         IN  Get(ctx, x) + SumOver(ctx, S \ {x})

\* the sum of the balances of all accounts
TotalSupply(ctx) == SumOver(ctx, addrs)

(***************************************************************************)
(* C1: supply conservation.  No invocation mints or burns: the sum of all  *)
(* account balances after an invocation equals the sum before it, hence    *)
(* the sum after any sequence equals the sum before the sequence.          *)
(* Checked with addresses of one length (SpecFixed).                       *)
(***************************************************************************)
C1_SupplyConserved == TotalSupply(store) = TotalSupply(pre)

(***************************************************************************)
(* C2: a successful transfer(from, to, amount) with from # to takes amount *)
(* from balance(from), adds amount to balance(to) and leaves every other   *)
(* record as it was.                                                       *)
(***************************************************************************)
C2_TransferMovesAmount ==
    (Called("transfer") /\ ReturnedTrue /\ args[1] # args[2]) =>
        /\ Get(store, args[1]) + args[3] = Get(pre, args[1])
        /\ Get(store, args[2]) = Get(pre, args[2]) + args[3]
        /\ \A k \in Keys \ {args[1], args[2]} : Get(store, k) = Get(pre, k)

\* the scenario A = IntMax, B = 0, transfer(A, B, 1) signed by A
C2_Witness ==
    /\ Called("transfer") /\ ReturnedTrue
    /\ args = <<AddrA, AddrB, 1>>
    /\ Get(pre, AddrA) = IntMax /\ Get(pre, AddrB) = 0
    /\ Get(store, AddrA) = IntMax - 1 /\ Get(store, AddrB) = 1
    /\ Len(events) = 1

(***************************************************************************)
(* C3: no silent wrap.  An arithmetic step of transfer, transferFrom or    *)
(* approve whose result leaves the integer range makes the invocation fail *)
(* and store nothing; so no invocation writes a value above IntMax.        *)
(***************************************************************************)
C3_NoValueBeyondIntMax ==
    operation \in {"transfer", "transferFrom", "approve"} =>
        \A k \in DOMAIN store : store[k] # Get(pre, k) => store[k] <= IntMax

(***************************************************************************)
(* C4: a transfer whose caller is not authorized as `from` returns false   *)
(* and changes nothing, whatever the balances, `to` and the amount are.    *)
(***************************************************************************)
C4_UnauthorizedTransferFails ==
    (Called("transfer") /\ args[1] \notin signers) =>
        ReturnedFalse /\ StoreUntouched /\ events = <<>>

\* refused although the sender holds the amount and names another recipient
C4_Witness ==
    /\ Called("transfer") /\ args[1] \notin signers
    /\ args[3] > 0 /\ args[1] # args[2]
    /\ Get(pre, args[1]) >= args[3]
    /\ witnessed = <<args[1]>> /\ signed = <<FALSE>>
    /\ ReturnedFalse

(***************************************************************************)
(* C5: transferFrom never succeeds when the allowance stored under         *)
(* concat(from, to) is less than the amount, even when balance(from)       *)
(* covers the amount.                                                      *)
(***************************************************************************)
C5_TransferFromNeedsAllowance ==
    (Called("transferFrom") /\ Get(pre, concat(args[1], args[2])) < args[3]) =>
        ~ReturnedTrue /\ StoreUntouched

\* A approved another spender only; transferFrom(A, B, 1) finds no allowance
\* under concat(A, B) although A holds the amount
C5_Witness ==
    /\ Called("transferFrom")
    /\ args = <<AddrA, AddrB, 1>>
    /\ Get(pre, concat(AddrA, AddrB)) = 0
    /\ Get(pre, concat(AddrA, AddrC)) >= 1
    /\ Get(pre, AddrA) >= 1
    /\ ReturnedFalse

(***************************************************************************)
(* C6: allowance non-negativity.  From a store whose allowances are all    *)
(* >= 0, every allowance record stays >= 0 after any sequence of           *)
(* invocations.  Checked with addresses of one length (SpecFixed).         *)
(***************************************************************************)
C6_AllowanceNonNegative ==
    \A o \in addrs, sp \in addrs : Get(store, concat(o, sp)) >= 0

(***************************************************************************)
(* C7: balance non-negativity.  From a store whose balances are all >= 0,  *)
(* every account balance stays >= 0 after any sequence of invocations with *)
(* any arguments.                                                          *)
(***************************************************************************)
C7_BalanceNonNegative == \A x \in addrs : Get(store, x) >= 0

(***************************************************************************)
(* C8: a transfer with amount <= 0 returns false, leaves the store         *)
(* unchanged and emits no event, for every from, to, balance and oracle    *)
(* answer.                                                                 *)
(***************************************************************************)
C8_NonPositiveTransferFails ==
    (Called("transfer") /\ args[3] <= 0) =>
        ReturnedFalse /\ StoreUntouched /\ events = <<>>

\* a transfer of zero between two accounts, signed, from a funded account
C8_Witness ==
    /\ Called("transfer") /\ args[3] = 0
    /\ args[1] # args[2] /\ args[1] \in signers
    /\ Get(pre, args[1]) > 0
    /\ ReturnedFalse

(***************************************************************************)
(* C9: a transfer with from = to, amount > 0 and the caller authorized as  *)
(* from returns true whatever from's balance is, leaves the whole store    *)
(* unchanged and emits no event.                                           *)
(***************************************************************************)
C9_SelfTransferIsNoOp ==
    (Called("transfer") /\ args[1] = args[2] /\ args[3] > 0
        /\ args[1] \in signers) =>
        ReturnedTrue /\ StoreUntouched /\ events = <<>>

\* a self-transfer of more than the account holds
C9_Witness ==
    /\ Called("transfer") /\ args[1] = args[2] /\ args[3] > 0
    /\ args[1] \in signers
    /\ Get(pre, args[1]) < args[3]
    /\ ReturnedTrue

(***************************************************************************)
(* C10: approve(owner, spender, amount) returns false and changes nothing  *)
(* whenever amount > balance(owner) at the time of the call, and whenever  *)
(* the caller is not authorized as owner.                                  *)
(***************************************************************************)
C10_ApproveRefused ==
    (Called("approve")
        /\ (args[3] > Get(pre, args[1]) \/ args[1] \notin signers)) =>
        ReturnedFalse /\ StoreUntouched /\ events = <<>>

\* the owner signed, and asks for more than the balance held
C10_Witness ==
    /\ Called("approve") /\ args[1] \in signers
    /\ Get(pre, args[1]) > 0
    /\ args[3] > Get(pre, args[1])
    /\ ReturnedFalse

(***************************************************************************)
(* C11: approvals are additive.  Every successful approve(owner, spender,  *)
(* amount) sets allowance(owner, spender) to its previous value plus       *)
(* amount, and changes no other allowance and no balance.                  *)
(***************************************************************************)
C11_ApproveAddsOnly ==
    (Called("approve") /\ ReturnedTrue) =>
        /\ Get(store, concat(args[1], args[2]))
               = Get(pre, concat(args[1], args[2])) + args[3]
        /\ \A o \in addrs, sp \in addrs :
               <<o, sp>> # <<args[1], args[2]>> =>
                   Get(store, concat(o, sp)) = Get(pre, concat(o, sp))
        /\ \A x \in addrs : Get(store, x) = Get(pre, x)

(***************************************************************************)
(* C12: all-or-nothing.  Every invocation of transfer, transferFrom or     *)
(* approve that returns false leaves the store exactly as it was (no put,  *)
(* no delete) and emits no event.                                          *)
(***************************************************************************)
C12_FailureChangesNothing ==
    (operation \in {"transfer", "transferFrom", "approve"} /\ ReturnedFalse) =>
        StoreUntouched /\ events = <<>>

\* a transferFrom that passes the allowance check and fails the balance check
C12_Witness ==
    /\ Called("transferFrom") /\ args[3] > 0
    /\ Get(pre, concat(args[1], args[2])) >= args[3]
    /\ Get(pre, args[1]) < args[3]
    /\ ReturnedFalse

(***************************************************************************)
(* C13: the entry point never runs a handler for a malformed call.  For an *)
(* operation name other than transfer, transferFrom, approve, allowance it *)
(* returns the sentinel (false or "unknown operation"); for a recognized   *)
(* name with the wrong number of arguments (3, 3, 3, 2 required) it        *)
(* returns false.  In both cases the store is unchanged, no event is       *)
(* emitted and the oracle is not consulted.                                *)
(***************************************************************************)
Recognized == {"transfer", "transferFrom", "approve", "allowance"}
Arity(op) == IF op = "allowance" THEN 2 ELSE 3

C13_MalformedCallRejected ==
    /\ (operation # "" /\ operation \notin Recognized) =>
           /\ ret \in {RetBool(FALSE), RetStr("unknown operation")}
           /\ StoreUntouched /\ events = <<>> /\ witnessed = <<>>
    /\ (operation \in Recognized /\ Len(args) # Arity(operation)) =>
           /\ ReturnedFalse
           /\ StoreUntouched /\ events = <<>> /\ witnessed = <<>>

\* allowance called with three arguments, for a pair that holds an allowance
C13_Witness ==
    /\ operation = "allowance" /\ Len(args) = 3
    /\ Get(pre, concat(args[1], args[2])) > 0
    /\ ReturnedFalse

\* an operation name the entry point does not know
C13_WitnessUnknown ==
    /\ operation = "balanceOf"
    /\ ret = RetStr("unknown operation")

(***************************************************************************)
(* C14: allowance(owner, spender) is a pure read.  It returns the value    *)
(* stored for concat(owner, spender), which is 0 for any pair with no      *)
(* prior approval, leaves the store unchanged and emits no event.          *)
(***************************************************************************)
C14_AllowanceReadsApprovals ==
    (operation = "allowance" /\ Len(args) = 2) =>
        /\ ret = RetInt(Get(pre, concat(args[1], args[2])))
        /\ <<args[1], args[2]>> \notin DOMAIN granted => ret = RetInt(0)
        /\ StoreUntouched /\ events = <<>>

\* the part of C14 that does not speak of approvals: the stored value is
\* returned and nothing is written or emitted
C14_PureRead ==
    (operation = "allowance" /\ Len(args) = 2) =>
        /\ ret = RetInt(Get(pre, concat(args[1], args[2])))
        /\ StoreUntouched /\ events = <<>>

(***************************************************************************)
(* C15, as claimed: the authorization oracle is consulted exactly once in  *)
(* every transfer invocation (for `from`) and exactly once in every        *)
(* approve invocation (for `owner`), and never in a transferFrom or        *)
(* allowance invocation.                                                   *)
(***************************************************************************)
C15_OracleOncePerTransferAndApprove ==
    /\ Called("transfer") => witnessed = <<args[1]>>
    /\ Called("approve") => witnessed = <<args[1]>>
    /\ operation \in {"transferFrom", "allowance"} => witnessed = <<>>

(***************************************************************************)
(* C15, amended: the oracle is consulted exactly once, for `from`, in      *)
(* every transfer invocation with amount > 0, and exactly once, for        *)
(* `owner`, in every approve invocation; it is not consulted in a transfer *)
(* with amount <= 0, nor in a transferFrom or allowance invocation, nor in *)
(* a call with the wrong number of arguments.                              *)
(***************************************************************************)
C15_OracleOnceWhenReached ==
    /\ (Called("transfer") /\ args[3] > 0) =>
           witnessed = <<args[1]>> /\ signed = <<args[1] \in signers>>
    /\ (Called("transfer") /\ args[3] <= 0) => witnessed = <<>>
    /\ Called("approve") =>
           witnessed = <<args[1]>> /\ signed = <<args[1] \in signers>>
    /\ operation \in {"transferFrom", "allowance"} => witnessed = <<>>
    /\ (operation \in Recognized /\ Len(args) # Arity(operation)) => witnessed = <<>>

\* a signed transfer of zero: the oracle was never asked
C15_Witness ==
    /\ Called("transfer") /\ args[3] = 0 /\ args[1] \in signers
    /\ witnessed = <<>>
    /\ ReturnedFalse

\* a transfer of a positive amount: the oracle was asked once, for `from`
C15_WitnessAsked ==
    /\ Called("transfer") /\ args[3] > 0 /\ witnessed = <<args[1]>>

(***************************************************************************)
(* C16: events are emitted only on successful state-changing paths.  Every *)
(* event was emitted by an invocation that returned true and changed the   *)
(* store; each such invocation emits exactly one event, which is           *)
(* transfer(from, to, amount) for transfer and transferFrom and            *)
(* approval(owner, spender, amount) for approve, with the call's own       *)
(* arguments; and the amount it carries is non-negative.                   *)
(***************************************************************************)
ExpectedEvent ==
    IF operation = "approve"
    THEN DispatchApproveEvent(args[1], args[2], args[3])
    ELSE DispatchTransferEvent(args[1], args[2], args[3])

C16_EventOnlyWithChange == events # <<>> => ReturnedTrue /\ store # pre

C16_OneEventOfTheCall ==
    (operation \in {"transfer", "transferFrom", "approve"}
        /\ ReturnedTrue /\ store # pre) => events = <<ExpectedEvent>>

C16_EventAmountUnsigned == \A i \in 1..Len(events) : events[i].amount >= 0

C16_EventsOnSuccessOnly ==
    C16_EventOnlyWithChange /\ C16_OneEventOfTheCall /\ C16_EventAmountUnsigned

(***************************************************************************)
(* C17: transferFrom(from, to, amount) with amount > 0 succeeds exactly    *)
(* when allowance(from, to) >= amount and balance(from) >= amount; on      *)
(* success balance(from) decreases by amount, balance(to) increases by     *)
(* amount, allowance(from, to) decreases by amount, and every other        *)
(* balance and allowance is unchanged, for all from and to, from = to      *)
(* included.                                                               *)
(***************************************************************************)
\* what the moves of the claim add up to at key k: the debit of `from`, the
\* credit of `to` and the spending of the allowance
TransferFromDelta(k) ==
    (IF k = args[2] THEN args[3] ELSE 0)
    - (IF k = args[1] THEN args[3] ELSE 0)
    - (IF k = concat(args[1], args[2]) THEN args[3] ELSE 0)

TransferFromEffect ==
    LET key == concat(args[1], args[2])
    IN  /\ ReturnedTrue <=>
               (Get(pre, key) >= args[3] /\ Get(pre, args[1]) >= args[3])
        /\ ReturnedTrue =>
               \A k \in Keys \cup {args[1], args[2], key} :
                   Get(store, k) = Get(pre, k) + TransferFromDelta(k)

C17_TransferFromExact ==
    (Called("transferFrom") /\ args[3] > 0) => TransferFromEffect

\* the same for two different accounts only
C17_TransferFromExactApart ==
    (Called("transferFrom") /\ args[3] > 0 /\ args[1] # args[2]) =>
        TransferFromEffect

(***************************************************************************)
(* C18: in every transferFrom that reaches its persist step the three keys *)
(* written, concat(from, to), `from` and `to`, are pairwise distinct, so   *)
(* the final store is the same for every order of the three writes; and no *)
(* allowance key formed by concatenation equals a balance key.             *)
(***************************************************************************)
\* the three writes of the last transferFrom, as <<key, value>>
PersistWrites ==
    LET key == concat(args[1], args[2])
    IN  << <<key, Get(pre, key) - args[3]>>,
           <<args[2], Get(pre, args[2]) + args[3]>>,
           <<args[1], Get(pre, args[1]) - args[3]>> >>

\* the store after the three writes made in the order i, j, k
WrittenInOrder(i, j, k) ==
    LET w == PersistWrites
    IN  Put(Put(Put(pre, w[i][1], w[i][2]), w[j][1], w[j][2]), w[k][1], w[k][2])

Orders == {o \in (1..3) \X (1..3) \X (1..3) : {o[1], o[2], o[3]} = 1..3}

C18_PersistKeysDisjoint ==
    (Called("transferFrom") /\ ReturnedTrue) =>
        /\ Cardinality({concat(args[1], args[2]), args[1], args[2]}) = 3
        /\ \A o \in Orders : WrittenInOrder(o[1], o[2], o[3]) = store
        /\ \A x \in addrs, y \in addrs : concat(x, y) \notin addrs

(***************************************************************************)
(* C19: storage-hygiene asymmetry.  A successful transfer (from # to)      *)
(* deletes the `from` record exactly when balance(from) equalled amount    *)
(* and otherwise writes balance(from) - amount, so it never stores an      *)
(* explicit zero for `from`.  transferFrom and approve never delete a      *)
(* record, so a transferFrom that drains a balance or an allowance leaves  *)
(* an explicit zero record in the store.                                   *)
(***************************************************************************)
C19_HygieneAsymmetry ==
    /\ (Called("transfer") /\ ReturnedTrue /\ args[1] # args[2]) =>
           IF Get(pre, args[1]) = args[3]
           THEN args[1] \notin DOMAIN store
           ELSE /\ args[1] \in DOMAIN store
                /\ store[args[1]] = Get(pre, args[1]) - args[3]
                /\ store[args[1]] # 0
    /\ operation \in {"transferFrom", "approve"} =>
           (DOMAIN pre) \subseteq (DOMAIN store)
    /\ (Called("transferFrom") /\ ReturnedTrue) =>
           /\ Get(pre, args[1]) = args[3] =>
                  args[1] \in DOMAIN store /\ store[args[1]] = 0
           /\ Get(pre, concat(args[1], args[2])) = args[3] =>
                  /\ concat(args[1], args[2]) \in DOMAIN store
                  /\ store[concat(args[1], args[2])] = 0

\* a transfer that spent the whole balance and removed the record
C19_Witness ==
    /\ Called("transfer") /\ ReturnedTrue /\ args[1] # args[2]
    /\ args[1] \in DOMAIN pre /\ pre[args[1]] = args[3]
    /\ args[1] \notin DOMAIN store

\* a transferFrom that drained balance and allowance and left two zero records
C19_WitnessDrained ==
    /\ Called("transferFrom") /\ ReturnedTrue /\ args[1] # args[2]
    /\ Get(pre, args[1]) = args[3]
    /\ Get(pre, concat(args[1], args[2])) = args[3]
    /\ args[1] \in DOMAIN store /\ store[args[1]] = 0
    /\ store[concat(args[1], args[2])] = 0

(***************************************************************************)
(* C20: no theft.  With addresses of one length and a store that starts    *)
(* with no allowance record, the balance of an address X decreases only in *)
(* (i) a transfer with from = X that the oracle authorized as X, or (ii) a *)
(* transferFrom(X, to, amount) whose `to` was named as spender in an       *)
(* earlier successful approve(X, to, .) authorized as X; and the total     *)
(* drawn from X to `to` by transferFrom never exceeds the total X approved *)
(* for `to`.                                                               *)
(***************************************************************************)
\* the balance of x went down in the last invocation
Decreased(x) == Get(store, x) < Get(pre, x)

\* (i): an authorized transfer out of x
AuthorizedTransferFrom(x) ==
    /\ Called("transfer") /\ ReturnedTrue
    /\ args[1] = x /\ x \in signers
    /\ witnessed = <<x>> /\ signed = <<TRUE>>

\* (ii): a transferFrom out of x to a spender x approved before
ApprovedTransferFrom(x) ==
    /\ Called("transferFrom") /\ ReturnedTrue
    /\ args[1] = x
    /\ <<x, args[2]>> \in DOMAIN granted

C20_DecreaseOnlyByConsent ==
    \A x \in addrs : Decreased(x) => AuthorizedTransferFrom(x) \/ ApprovedTransferFrom(x)

C20_DrawnWithinApproved ==
    \A x \in addrs, t \in addrs : Total(drawn, <<x, t>>) <= Total(granted, <<x, t>>)

C20_NoTheft == C20_DecreaseOnlyByConsent /\ C20_DrawnWithinApproved

\* a spender drew from x after x approved it
C20_WitnessDrawn ==
    \E x \in addrs : Decreased(x) /\ ApprovedTransferFrom(x) /\ args[2] # x

\* the allowance record is what was approved less what was drawn, so the
\* bound on the amount drawn says exactly that no allowance is negative (C6)
C20_AllowanceAccounts ==
    \A x \in addrs, t \in addrs :
        Get(store, concat(x, t)) = Total(granted, <<x, t>>) - Total(drawn, <<x, t>>)

====
